---- MODULE Spec2Model ----
(***************************************************************************)
(* Transport request form backend: the JSON journal, the per-submission    *)
(* background pipeline and the periodic JSON -> SharePoint reconciliation. *)
(*                                                                         *)
(* Threads of the program:                                                 *)
(*  - the asyncio event loop runs the POST /api/submit handler and every   *)
(*    process_submission coroutine; code between two awaits runs without   *)
(*    any other event-loop code in between, but it does interleave with    *)
(*    the threads below;                                                   *)
(*  - each reconciliation run (APScheduler job or GET /api/sync/trigger)   *)
(*    runs on a thread of its own.                                         *)
(*                                                                         *)
(* Specifications: Spec and FairSpec (submissions against the interval     *)
(* job), SpecRecon and SpecRuns (reconciliation over a journal at rest),   *)
(* SpecWrite (one remote row write call, attempt by attempt) and SpecPipe  *)
(* (one process_submission coroutine, step by step), SpecStore (the journal *)
(* file under I/O errors and purges), SpecSweep (one retention sweep) and   *)
(* SpecLive (the pipeline against a remote service that may not answer),   *)
(* SpecRow (the cells of one sheet row), SpecGuard (exceptions raised by   *)
(* collaborators inside the three entry points).                           *)
(***************************************************************************)
EXTENDS Integers, Sequences, FiniteSets, TLC

\* ------------------------------------------------------------------ bounds
MaxSubs == 2        \* submissions received
MaxRuns == 2        \* reconciliation threads: the interval job, then manual triggers
MaxRecords == 2     \* records of a journal found on disk at process start
MaxRand == 2        \* distinct request ids the generator can draw
MaxFaults == 1      \* remote calls that fail before the remote service recovers

MaxCalls == 2       \* reconciliation runs that try the row write of one record
MaxItems == 4       \* attachment items of one submission
MaxPurges == 1      \* requests to POST /api/data/json/delete
MaxFiles == 3       \* children of the remote Attachments folder

DefaultMaxRetries == 3     \* sharepoint_config.get('max_retries', 3)
RetryWaitMultiplier == 2   \* sharepoint_config.get('retry_wait_multiplier', 2)
MaxWorkers == 3            \* ThreadPoolExecutor(max_workers=3)
RetentionDays == 90        \* sharepoint_config.get('attachment_retention_days', 90)

Subs == 1..MaxSubs
Runs == 1..MaxRuns
Ids == 1..MaxRand

\* the thread of the scheduler's 'sync_json_to_sharepoint' interval job; the other
\* members of Runs are requests to GET /api/sync/trigger
IntervalJob == 1

VARIABLES
    journal,    \* the JSON backup file: sequence of records
    remote,     \* the Excel sheet: sequence of data rows (sheet row i+1)
    sub,        \* per submission: handler / pipeline position and locals
    run,        \* per reconciliation thread: position and locals
    loop,       \* the pipeline blocking the event loop thread (0: loop free)
    faults,     \* remote failures still to come
    call,       \* one remote row write call seen attempt by attempt
    pipe,       \* one process_submission coroutine seen step by step
    disk,       \* the journal file as the file system holds it
    sweep,      \* one retention sweep over the remote attachment folder
    cells,      \* one sheet row, from the posted form to its last patch
    guard       \* one entry point, its position and the exception in flight

vars == <<journal, remote, sub, run, loop, faults, call, pipe, disk, sweep, cells, guard>>

\* ------------------------------------------------------------ pure helpers

\* list.index(x): the first position holding a value equal to x (0 if none)
IndexOf(seq, x) ==
    IF \E i \in DOMAIN seq : seq[i] = x
    THEN CHOOSE i \in DOMAIN seq : seq[i] = x /\ \A j \in 1..(i - 1) : seq[j] # x
    ELSE 0

\* [r for r in json_records if not r.get('SharePoint_Synced', False)], as the
\* positions of the records kept (the run holds references into json_records)
RECURSIVE UnsyncedFrom(_, _)
UnsyncedFrom(records, i) ==
    IF i > Len(records) THEN <<>>
    ELSE (IF records[i].synced THEN <<>> ELSE <<i>>) \o UnsyncedFrom(records, i + 1)

Unsynced(records) == UnsyncedFrom(records, 1)

\* a record that is born synced
SyncedRecord(s, id, hasAtt) ==
    [sub |-> s, id |-> id, has |-> "No", status |-> "None", err |-> "", synced |-> TRUE]

\* the record save_initial_record appends
InitialRecord(s, id, hasAtt) ==
    [ sub    |-> s,          \* Timestamp and the ten business fields of submission s
      id     |-> id,         \* Request_ID
      has    |-> IF hasAtt THEN "Processing" ELSE "No",
      status |-> IF hasAtt THEN "Processing" ELSE "None",
      err    |-> "",
      synced |-> FALSE ]

\* 'Saved' if has_attachment else ('Failed' if attachment_error else 'None')
AttachmentStatus(hasAttachment, attachmentError) ==
    IF hasAttachment THEN "Saved"
    ELSE IF attachmentError # "" THEN "Failed" ELSE "None"

\* row_values of _save_via_excel_api (ExcelHelper and SchedulerManager alike)
RowValues(id, s, hasAttachment, attachmentError) ==
    [ id     |-> id,
      sub    |-> s,
      has    |-> IF hasAttachment THEN "Yes" ELSE "No",
      status |-> AttachmentStatus(hasAttachment, attachmentError),
      err    |-> attachmentError ]

\* add_excel_row, first half: the row after the last used row of column A
NextRow(sheet) == Len(sheet) + 1

\* add_excel_row, second half: PATCH the range of row n with the new values
PatchRow(sheet, n, row) ==
    IF n <= Len(sheet) THEN [sheet EXCEPT ![n] = row] ELSE Append(sheet, row)

\* a flag update that leaves the file as it was
SkipSynced(records, index, synced) == records

\* update_sync_status / _update_json_sync_status on a list of records
SetSynced(records, index, synced) ==
    IF 0 <= index /\ index < Len(records)
    THEN [records EXCEPT ![index + 1].synced = synced]
    ELSE records

\* JSONHelper.update_attachment_status on a list of records
SetAttachment(records, index, anySaved, anyError) ==
    IF 0 <= index /\ index < Len(records)
    THEN [records EXCEPT
            ![index + 1].has = IF anySaved THEN "Yes" ELSE "No",
            ![index + 1].status =
                IF anySaved THEN "Saved" ELSE IF anyError THEN "Failed" ELSE "None",
            ![index + 1].err = IF anyError THEN "upload failed" ELSE ""]
    ELSE records

\* update_excel_row_by_id: cells L, M, N of the first row whose column A is id
UpdateRowById(sheet, id, hasAttachment, attachmentError) ==
    LET n == IndexOf([i \in DOMAIN sheet |-> sheet[i].id], id) IN
    IF n = 0 THEN sheet
    ELSE [sheet EXCEPT
            ![n].has = IF hasAttachment THEN "Yes" ELSE "No",
            ![n].status = AttachmentStatus(hasAttachment, attachmentError),
            ![n].err = attachmentError]

\* ------------------------------------------------------------------- init

IdleSub == [pc |-> "new", id |-> 0, idx |-> -1, hasAtt |-> FALSE,
            nextRow |-> 0, saved |-> FALSE, status |-> ""]

IdleRun == [pc |-> "idle", recs |-> <<>>, unsynced |-> <<>>, existing |-> {},
            todo |-> <<>>, k |-> 0, nextRow |-> 0, nsynced |-> 0]

IdleCall == [state |-> "none"]

IdlePipe == [pc |-> "none"]

IdleDisk == [state |-> "none"]

IdleSweep == [pc |-> "none"]

IdleCells == [pc |-> "none"]

IdleGuard == [st |-> "none"]

Init ==
    /\ journal = <<>>
    /\ remote = <<>>
    /\ sub = [s \in Subs |-> IdleSub]
    /\ run = [r \in Runs |-> IdleRun]
    /\ loop = 0
    /\ faults = MaxFaults
    /\ call = IdleCall
    /\ pipe = IdlePipe
    /\ disk = IdleDisk
    /\ sweep = IdleSweep
    /\ cells = IdleCells
    /\ guard = IdleGuard

\* --------------------------------------------------- POST /api/submit

\* the request reaches the server
SubmitArrive(s) ==
    /\ UNCHANGED <<call, pipe, disk, sweep, cells, guard>>
    /\ sub[s].pc = "new"
    /\ sub' = [sub EXCEPT ![s].pc = "arrived"]
    /\ UNCHANGED <<journal, remote, run, loop, faults>>

\* submit_transport_request: id, save_initial_record, add_task, response
SubmitHandle(s) ==
    /\ UNCHANGED <<call, pipe, disk, sweep, cells, guard>>
    /\ sub[s].pc = "arrived"
    /\ loop = 0
    /\ \E id \in Ids, hasAtt \in BOOLEAN :
        /\ journal' = Append(journal, InitialRecord(s, id, hasAtt))
        /\ sub' = [sub EXCEPT ![s].pc = "queued", ![s].id = id,
                              ![s].idx = Len(journal), ![s].hasAtt = hasAtt]
    /\ UNCHANGED <<remote, run, loop, faults>>

\* ------------------------------------------------- process_submission

\* where the coroutine stands after save_to_excel: with attachments it awaits
\* the uploads (the loop is released), without it runs on without yielding
AfterSave(s, saved) ==
    /\ sub' = [sub EXCEPT ![s].pc = "finalize", ![s].saved = saved, ![s].nextRow = 0]
    /\ loop' = IF sub[s].hasAtt THEN 0 ELSE s

\* save_to_excel -> add_excel_row up to the row computation
PipeSaveBegin(s) ==
    /\ UNCHANGED <<call, pipe, disk, sweep, cells, guard>>
    /\ sub[s].pc = "queued"
    /\ loop = 0
    /\ \/ /\ sub' = [sub EXCEPT ![s].pc = "writing", ![s].nextRow = NextRow(remote)]
          /\ loop' = s
          /\ UNCHANGED faults
       \/ /\ faults > 0                 \* token or metadata request fails
          /\ faults' = faults - 1
          /\ AfterSave(s, FALSE)
    /\ UNCHANGED <<journal, remote, run>>

\* add_excel_row's PATCH, then update_sync_status(json_index, True)
PipeSaveEnd(s) ==
    /\ UNCHANGED <<call, pipe, disk, sweep, cells, guard>>
    /\ sub[s].pc = "writing"
    /\ \/ /\ remote' = PatchRow(remote, sub[s].nextRow,
                                RowValues(sub[s].id, s, sub[s].hasAtt,
                                          IF sub[s].hasAtt THEN "Processing..." ELSE ""))
          /\ journal' = SetSynced(journal, sub[s].idx, TRUE)
          /\ AfterSave(s, TRUE)
          /\ UNCHANGED faults
       \/ /\ faults > 0
          /\ faults' = faults - 1
          /\ AfterSave(s, FALSE)
          /\ UNCHANGED <<journal, remote>>
    /\ UNCHANGED run

\* after the uploads: Excel status update, JSON status update, email
PipeFinalize(s) ==
    /\ UNCHANGED <<call, pipe, disk, sweep, cells, guard>>
    /\ sub[s].pc = "finalize"
    /\ loop \in {0, s}
    /\ \E anySaved, anyError \in BOOLEAN :
        /\ sub[s].hasAtt => (anySaved \/ anyError)
        /\ ~sub[s].hasAtt => (~anySaved /\ ~anyError)
        /\ \/ /\ sub[s].hasAtt
              /\ remote' = UpdateRowById(remote, sub[s].id, anySaved,
                                         IF anyError THEN "upload failed" ELSE "")
              /\ UNCHANGED faults
           \/ /\ sub[s].hasAtt
              /\ faults > 0
              /\ faults' = faults - 1
              /\ UNCHANGED remote
           \/ /\ ~sub[s].hasAtt
              /\ UNCHANGED <<remote, faults>>
        /\ journal' = SetAttachment(journal, sub[s].idx, anySaved, anyError)
        /\ sub' = [sub EXCEPT ![s].pc = "done",
                              ![s].status = IF anySaved THEN "Saved"
                                            ELSE IF anyError THEN "Failed" ELSE "None"]
    /\ loop' = 0
    /\ UNCHANGED run

\* ------------------------------------------- sync_json_to_sharepoint

\* a partition that queues every unsynced record, found remotely or not
QueueAll(recs, unsynced, existing) == unsynced

\* records_to_sync: the unsynced records whose Request_ID is not in the scan
Missing(recs, unsynced, existing) ==
    SelectSeq(unsynced, LAMBDA p : recs[p].id \notin existing)

\* the run loads the JSON file and filters the unsynced records
RunStart(r) ==
    /\ UNCHANGED <<call, pipe, disk, sweep, cells, guard>>
    /\ run[r].pc = "idle"
    /\ run' = [run EXCEPT ![r].pc = "loaded", ![r].recs = journal,
                          ![r].unsynced = Unsynced(journal)]
    /\ UNCHANGED <<journal, remote, sub, loop, faults>>

\* nothing unsynced: the run returns; otherwise it downloads the workbook,
\* collects column A and partitions the unsynced records
RunScan(r) ==
    /\ UNCHANGED <<call, pipe, disk, sweep, cells, guard>>
    /\ run[r].pc = "loaded"
    /\ \/ /\ run[r].unsynced = <<>>
          /\ run' = [run EXCEPT ![r] = IdleRun]
          /\ UNCHANGED faults
       \/ /\ run[r].unsynced # <<>>
          /\ LET existing == {remote[i].id : i \in DOMAIN remote}
                 recs == run[r].recs
                 todo == Missing(recs, run[r].unsynced, existing)
             IN  run' = [run EXCEPT ![r].existing = existing, ![r].todo = todo,
                                    ![r].k = 1,
                                    ![r].pc = IF todo = <<>> THEN "marking" ELSE "syncing"]
          /\ UNCHANGED faults
       \/ /\ run[r].unsynced # <<>>
          /\ faults > 0                 \* token or download fails: the run ends
          /\ faults' = faults - 1
          /\ run' = [run EXCEPT ![r] = IdleRun]
    /\ UNCHANGED <<journal, remote, sub, loop>>

\* _mark_records_as_synced, one record of the loop
RunMark(r) ==
    /\ UNCHANGED <<call, pipe, disk, sweep, cells, guard>>
    /\ run[r].pc = "marking"
    /\ LET recs == run[r].recs
           p == run[r].unsynced[run[r].k]
           new == IF recs[p].id \in run[r].existing
                  THEN SetSynced(recs, IndexOf(recs, recs[p]) - 1, TRUE)
                  ELSE recs
       IN  /\ IF recs[p].id \in run[r].existing THEN journal' = new
                                                ELSE UNCHANGED journal
           /\ run' = [run EXCEPT ![r] =
                        IF run[r].k = Len(run[r].unsynced) THEN IdleRun
                        ELSE [run[r] EXCEPT !.recs = new, !.k = run[r].k + 1]]
    /\ UNCHANGED <<remote, sub, loop, faults>>

\* a loop that a failed write ends
StopAtFailure(r, recs, synced) ==
    run' = [run EXCEPT ![r] =
              IF run[r].k = Len(run[r].todo) \/ synced = 0 THEN IdleRun
              ELSE [run[r] EXCEPT !.pc = "syncing", !.recs = recs,
                                  !.k = run[r].k + 1, !.nextRow = 0,
                                  !.nsynced = run[r].nsynced + synced]]

\* the loop over records_to_sync moves on to the next record, or the run ends
NextRecord(r, recs, synced) ==
    run' = [run EXCEPT ![r] =
              IF run[r].k = Len(run[r].todo) THEN IdleRun
              ELSE [run[r] EXCEPT !.pc = "syncing", !.recs = recs,
                                  !.k = run[r].k + 1, !.nextRow = 0,
                                  !.nsynced = run[r].nsynced + synced]]

\* _save_via_excel_api -> add_excel_row up to the row computation
RunWriteBegin(r) ==
    /\ UNCHANGED <<call, pipe, disk, sweep, cells, guard>>
    /\ run[r].pc = "syncing"
    /\ \/ /\ run' = [run EXCEPT ![r].pc = "writing", ![r].nextRow = NextRow(remote)]
          /\ UNCHANGED faults
       \/ /\ faults > 0
          /\ faults' = faults - 1
          /\ NextRecord(r, run[r].recs, 0)
    /\ UNCHANGED <<journal, remote, sub, loop>>

\* add_excel_row's PATCH, then _update_json_sync_status(record index, True)
RunWriteEnd(r) ==
    /\ UNCHANGED <<call, pipe, disk, sweep, cells, guard>>
    /\ run[r].pc = "writing"
    /\ LET recs == run[r].recs
           rec == recs[run[r].todo[run[r].k]]
           new == SetSynced(recs, IndexOf(recs, rec) - 1, TRUE)
       IN  \/ /\ remote' = PatchRow(remote, run[r].nextRow,
                                    RowValues(rec.id, rec.sub, rec.has = "Yes", rec.err))
              /\ journal' = new
              /\ NextRecord(r, new, 1)
              /\ UNCHANGED faults
           \/ /\ faults > 0
              /\ faults' = faults - 1
              /\ NextRecord(r, recs, 0)
              /\ UNCHANGED <<journal, remote>>
    /\ UNCHANGED <<sub, loop>>

\* ------------------------------------------- one remote row write call

\* What a failed remote request raises: the cause of the failure, and whether
\* the text of the exception (status code and response body) holds one of
\* the substrings 'locked', 'in use', '423', ... ; a locked file answers 423.
Errors ==
    { [cause |-> "locked", indicator |-> TRUE],
      [cause |-> "other",  indicator |-> FALSE],
      [cause |-> "other",  indicator |-> TRUE] }

\* is_locked = any(indicator in error_str for indicator in [...])
IsLocked(e) == e.indicator

\* wait_time = (attempt + 1) * retry_wait_multiplier
WaitTime(attempt) == (attempt + 1) * RetryWaitMultiplier

\* a caller starts the write of the row of the only record of the journal
NewCall(who, api, maxRetries, calls) ==
    [state |-> "prepare", who |-> who, api |-> api, maxRetries |-> maxRetries,
     attempt |-> 0, made |-> 0, waits |-> <<>>, errs |-> <<>>, calls |-> calls]

\* the exception reaches the caller's except clause: save_to_excel records
\* sharepoint_error, the run counts the record as failed; no flag is written
CallRaise(e) ==
    /\ call' = [call EXCEPT !.state = "failed", !.errs = Append(call.errs, e)]
    /\ UNCHANGED <<journal, remote>>

\* get_access_token, and get_folder on the download/upload path: outside the
\* retry loop
CallPrepare ==
    /\ call.state = "prepare"
    /\ \/ /\ call' = [call EXCEPT !.state = "trying"]
          /\ UNCHANGED <<journal, remote>>
       \/ \E e \in Errors : CallRaise(e)
    /\ UNCHANGED <<sub, run, loop, faults, pipe, disk, sweep, cells, guard>>

\* one attempt: add_excel_row on the Excel API path, download / append /
\* upload on the other; on success the caller sets SharePoint_Synced
CallAttempt ==
    /\ call.state = "trying"
    /\ \/ /\ remote' = PatchRow(remote, NextRow(remote),
                                RowValues(journal[1].id, journal[1].sub, FALSE, ""))
          /\ journal' = SetSynced(journal, 0, TRUE)
          /\ call' = [call EXCEPT !.state = "returned", !.made = call.made + 1]
       \/ \E e \in Errors :
            IF ~call.api /\ IsLocked(e) /\ call.attempt < call.maxRetries - 1
            THEN /\ call' = [call EXCEPT !.state = "sleeping",
                                         !.made = call.made + 1,
                                         !.errs = Append(call.errs, e),
                                         !.waits = Append(call.waits, WaitTime(call.attempt))]
                 /\ UNCHANGED <<journal, remote>>
            ELSE /\ call' = [call EXCEPT !.state = "failed",
                                         !.made = call.made + 1,
                                         !.errs = Append(call.errs, e)]
                 /\ UNCHANGED <<journal, remote>>
    /\ UNCHANGED <<sub, run, loop, faults, pipe, disk, sweep, cells, guard>>

\* time.sleep(wait_time); continue
CallRetry ==
    /\ call.state = "sleeping"
    /\ call' = [call EXCEPT !.state = "trying", !.attempt = call.attempt + 1]
    /\ UNCHANGED <<journal, remote, sub, run, loop, faults, pipe, disk, sweep, cells, guard>>

\* the next reconciliation run finds the record unsynced and without a row,
\* and calls the write again (the pipeline is not run again)
CallAgain ==
    /\ call.state = "failed"
    /\ call.calls < MaxCalls
    /\ Missing(journal, Unsynced(journal), {remote[i].id : i \in DOMAIN remote}) # <<>>
    /\ call' = NewCall("run", call.api, call.maxRetries, call.calls + 1)
    /\ UNCHANGED <<journal, remote, sub, run, loop, faults, pipe, disk, sweep, cells, guard>>

\* ------------------------------ process_submission, one step at a time

\* filenames the browser sends; two items may carry the same name
Names == {"a.pdf", "b.pdf"}

\* sharepoint.enabled in the configuration: true, false, or key not present
Switch == {"true", "false", "absent"}

\* save_to_excel: self.sharepoint_config.get('enabled', False)
ExcelEnabled(cfg) == cfg = "true"

\* process_submission: self.sharepoint_config.get('enabled', True)
UploadEnabled(cfg) == cfg # "false"

\* error_msg of upload_single_attachment for an item named name
ErrorMsg(name) == "failed " \o name

\* "; ".join(attachments_errors) if attachments_errors else '' / None
RECURSIVE Join(_)
Join(errors) ==
    IF errors = <<>> THEN ""
    ELSE IF Len(errors) = 1 THEN errors[1]
    ELSE errors[1] \o "; " \o Join(Tail(errors))

\* positions 1..n of the items whose state is st, in the order of the list
RECURSIVE ItemsIn(_, _, _)
ItemsIn(items, st, i) ==
    IF i > Len(items) THEN <<>>
    ELSE (IF items[i] = st THEN <<i>> ELSE <<>>) \o ItemsIn(items, st, i + 1)

\* a result list that keeps the first success only
FirstSaved(items) ==
    IF ItemsIn(items, "ok", 1) = <<>> THEN <<>> ELSE <<ItemsIn(items, "ok", 1)[1]>>

\* attachments_saved: the new_filename (item ordinal) of every success
SavedOf(items) == ItemsIn(items, "ok", 1)

\* an error list that names every item
AllNames(items, names) == [i \in 1..Len(items) |-> ErrorMsg(names[i])]

\* attachments_errors: the message of every failure, in the order of gather
ErrorsOf(items, names) ==
    LET failed == ItemsIn(items, "failed", 1) IN
    [k \in 1..Len(failed) |-> ErrorMsg(names[failed[k]])]

\* an executor that starts every submitted task at once
AlwaysFree(items) == TRUE

\* ThreadPoolExecutor(max_workers=3): a worker thread is free
FreeWorker(items) ==
    Cardinality({i \in DOMAIN items : items[i] = "running"}) < MaxWorkers

\* a gather that returns without waiting
NoWait(items) == TRUE

\* await asyncio.gather(*upload_tasks, return_exceptions=True) returns
UploadsDone(items) == \A i \in DOMAIN items : items[i] \in {"ok", "failed"}

\* a pipeline that ends once save_to_excel has returned
StopAfterRow(cfg, n) == "done"

\* the step after save_to_excel, which returns whatever happened to the write
AfterRow(cfg, n) == IF UploadEnabled(cfg) /\ n > 0 THEN "uploads" ELSE "status"

\* JSONHelper.update_attachment_status with the two lists of the pipeline
PatchAttachment(records, index, saved, errors) ==
    LET r == SetAttachment(records, index, saved # <<>>, errors # <<>>) IN
    IF 0 <= index /\ index < Len(records)
    THEN [r EXCEPT ![index + 1].err = Join(errors)]
    ELSE r

\* a form field: a key of the posted JSON object and its string of characters
Absent == [present |-> FALSE, v |-> <<>>]

Given(v) == [present |-> TRUE, v |-> v]

\* str.strip(), left side
RECURSIVE StripLeft(_)
StripLeft(v) == IF v # <<>> /\ Head(v) = " " THEN StripLeft(Tail(v)) ELSE v

\* str.strip(), right side
RECURSIVE StripRight(_)
StripRight(v) ==
    IF v # <<>> /\ v[Len(v)] = " " THEN StripRight(SubSeq(v, 1, Len(v) - 1)) ELSE v

Strip(v) == StripRight(StripLeft(v))

\* ch in v
Has(v, ch) == \E i \in DOMAIN v : v[i] = ch

\* v.split('@')[-1]
LastPart(v) ==
    LET ats == {i \in DOMAIN v : v[i] = "@"} IN
    IF ats = {} THEN v
    ELSE SubSeq(v, (CHOOSE i \in ats : \A j \in ats : j <= i) + 1, Len(v))

\* validate_non_empty_string passes: not (not v or v.strip() == "")
NonEmpty(v) == v # <<>> /\ Strip(v) # <<>>

\* validate_email passes
ValidEmail(v) ==
    /\ NonEmpty(v)
    /\ Has(Strip(v), "@")
    /\ Has(LastPart(Strip(v)), ".")

\* a validator that lets every request through
AcceptAll(form) == TRUE

\* json.loads and TransportRequest(**data_dict) raise nothing. truck stands for
\* the fields under validate_non_empty_string, trailer for the required fields
\* under no validator (trailerLicensePlates, borderCrossingDate).
Accepts(form) ==
    /\ form.json
    /\ form.truck.present /\ NonEmpty(form.truck.v)
    /\ form.trailer.present
    /\ form.email.present /\ NonEmpty(form.email.v) /\ ValidEmail(form.email.v)

\* the request bodies tried: one that is not JSON, and JSON objects with each
\* field missing, empty, blank or filled
Forms ==
    {[json |-> FALSE, truck |-> Absent, trailer |-> Absent, email |-> Absent]}
    \cup
    [json : {TRUE},
     truck : {Absent, Given(<<>>), Given(<<" ">>), Given(<<"a">>)},
     trailer : {Absent, Given(<<>>), Given(<<"a">>)},
     email : {Absent, Given(<<" ">>), Given(<<"a">>), Given(<<"a", "@", "b">>),
              Given(<<"a", ".", "b", "@", "c">>),
              Given(<<" ", "a", "@", "b", ".", "c">>)}]

NewPipe(cfg, names, form) ==
    [pc |-> "received", cfg |-> cfg, n |-> Len(names), names |-> names,
     form |-> form, response |-> 0,
     items |-> [i \in 1..Len(names) |-> "pending"], scratch |-> {},
     rowFailed |-> FALSE, saved |-> <<>>, errors |-> <<>>, files |-> {},
     mailed |-> FALSE, log |-> <<>>]

\* submit_transport_request: the body does not parse or does not validate;
\* both except branches raise HTTPException(status_code=400)
PipeReject ==
    /\ pipe.pc = "received"
    /\ ~Accepts(pipe.form)
    /\ pipe' = [pipe EXCEPT !.pc = "rejected", !.response = 400]
    /\ UNCHANGED <<journal, remote, sub, run, loop, faults, call, disk, sweep, cells, guard>>

\* submit_transport_request: save_initial_record, then add_task
PipeAppend ==
    /\ pipe.pc = "received"
    /\ Accepts(pipe.form)
    /\ journal' = Append(journal, InitialRecord(1, 1, pipe.n > 0))
    /\ pipe' = [pipe EXCEPT !.pc = "row", !.response = 200,
                            !.log = Append(pipe.log, "append")]
    /\ UNCHANGED <<remote, sub, run, loop, faults, call, disk, sweep, cells, guard>>

\* STEP 1: save_to_excel; a failure of the write is kept in the result
PipeRow ==
    /\ pipe.pc = "row"
    /\ \/ /\ ExcelEnabled(pipe.cfg)
          /\ remote' = PatchRow(remote, NextRow(remote),
                                RowValues(1, 1, pipe.n > 0,
                                          IF pipe.n > 0 THEN "Processing..." ELSE ""))
          /\ journal' = SetSynced(journal, 0, TRUE)
          /\ pipe' = [pipe EXCEPT !.pc = AfterRow(pipe.cfg, pipe.n),
                                  !.log = Append(pipe.log, "row")]
       \/ /\ ExcelEnabled(pipe.cfg)
          /\ pipe' = [pipe EXCEPT !.pc = AfterRow(pipe.cfg, pipe.n),
                                  !.rowFailed = TRUE,
                                  !.log = Append(pipe.log, "row")]
          /\ UNCHANGED <<journal, remote>>
       \/ /\ ~ExcelEnabled(pipe.cfg)
          /\ pipe' = [pipe EXCEPT !.pc = AfterRow(pipe.cfg, pipe.n)]
          /\ UNCHANGED <<journal, remote>>
    /\ UNCHANGED <<sub, run, loop, faults, call, disk, sweep, cells, guard>>

\* STEP 2: a worker thread of the executor takes the next submitted task
UploadStart(i) ==
    /\ pipe.pc = "uploads"
    /\ i \in DOMAIN pipe.items
    /\ pipe.items[i] = "pending"
    /\ \A j \in 1..(i - 1) : pipe.items[j] # "pending"
    /\ FreeWorker(pipe.items)
    /\ pipe' = [pipe EXCEPT !.items[i] = "running",
                            !.log = Append(pipe.log, "upload")]
    /\ UNCHANGED <<journal, remote, sub, run, loop, faults, call, disk, sweep, cells, guard>>

\* upload_single_attachment up to the end of the with block: the token or the
\* folder lookup raises before any file exists; NamedTemporaryFile(delete=False)
\* creates the file and write(content) fills it; or write(content) raises, the
\* with block closes the file and the except branch returns
UploadStage(i) ==
    /\ pipe.pc = "uploads"
    /\ i \in DOMAIN pipe.items
    /\ pipe.items[i] = "running"
    /\ i \notin pipe.scratch
    /\ \/ pipe' = [pipe EXCEPT !.items[i] = "failed"]
       \/ pipe' = [pipe EXCEPT !.scratch = pipe.scratch \cup {i}]
       \/ pipe' = [pipe EXCEPT !.scratch = pipe.scratch \cup {i},
                               !.items[i] = "failed"]
    /\ UNCHANGED <<journal, remote, sub, run, loop, faults, call, disk, sweep, cells, guard>>

\* upload_file inside try/finally: returns (True, new_filename, None) or raises
\* into (False, filename, error_msg); the finally branch unlinks temp_path
UploadEnd(i) ==
    /\ pipe.pc = "uploads"
    /\ i \in DOMAIN pipe.items
    /\ pipe.items[i] = "running"
    /\ i \in pipe.scratch
    /\ \/ pipe' = [pipe EXCEPT !.items[i] = "ok", !.files = pipe.files \cup {i},
                               !.scratch = pipe.scratch \ {i}]
       \/ pipe' = [pipe EXCEPT !.items[i] = "failed",
                               !.scratch = pipe.scratch \ {i}]
    /\ UNCHANGED <<journal, remote, sub, run, loop, faults, call, disk, sweep, cells, guard>>

\* gather returns; the results are split into the two lists
PipeGather ==
    /\ pipe.pc = "uploads"
    /\ UploadsDone(pipe.items)
    /\ pipe' = [pipe EXCEPT !.pc = "status",
                            !.saved = SavedOf(pipe.items),
                            !.errors = ErrorsOf(pipe.items, pipe.names)]
    /\ UNCHANGED <<journal, remote, sub, run, loop, faults, call, disk, sweep, cells, guard>>

\* STEP 3: final status to the Excel row (errors are swallowed) and to the
\* JSON record
PipeStatus ==
    /\ pipe.pc = "status"
    /\ \/ /\ pipe.n > 0
          /\ remote' = UpdateRowById(remote, 1, pipe.saved # <<>>, Join(pipe.errors))
       \/ UNCHANGED remote
    /\ journal' = PatchAttachment(journal, 0, pipe.saved, pipe.errors)
    /\ pipe' = [pipe EXCEPT !.pc = "notify", !.log = Append(pipe.log, "status")]
    /\ UNCHANGED <<sub, run, loop, faults, call, disk, sweep, cells, guard>>

\* a notifier step that calls send again after a failure
PipeNotifyRetry ==
    /\ pipe.pc = "notify"
    /\ \E sent \in BOOLEAN :
          pipe' = [pipe EXCEPT !.pc = IF sent \/ Len(pipe.log) > MaxItems + 5
                                     THEN "done" ELSE "notify",
                               !.mailed = sent,
                               !.log = Append(pipe.log, "notify")]
    /\ UNCHANGED <<journal, remote, sub, run, loop, faults, call, disk, sweep, cells, guard>>

\* STEP 5: send_confirmation; its failure is logged
PipeNotify ==
    /\ pipe.pc = "notify"
    /\ \E sent \in BOOLEAN :
          pipe' = [pipe EXCEPT !.pc = "done", !.mailed = sent,
                               !.log = Append(pipe.log, "notify")]
    /\ UNCHANGED <<journal, remote, sub, run, loop, faults, call, disk, sweep, cells, guard>>

\* ------------------------------------------------------------------- spec

\* Submissions against the scheduler's interval job
Next ==
    \/ \E s \in Subs : SubmitArrive(s)
    \/ \E s \in Subs : SubmitHandle(s)
    \/ \E s \in Subs : PipeSaveBegin(s)
    \/ \E s \in Subs : PipeSaveEnd(s)
    \/ \E s \in Subs : PipeFinalize(s)
    \/ RunStart(IntervalJob)
    \/ RunScan(IntervalJob)
    \/ RunMark(IntervalJob)
    \/ RunWriteBegin(IntervalJob)
    \/ RunWriteEnd(IntervalJob)

Spec == Init /\ [][Next]_vars

\* The scheduler keeps firing the interval job, the event loop keeps running
\* its handlers and coroutines, and every thread that has begun a step ends
\* it; the remote service fails at most MaxFaults calls.
Fairness ==
    /\ \A s \in Subs : /\ WF_vars(SubmitHandle(s))
                       /\ WF_vars(PipeSaveBegin(s))
                       /\ WF_vars(PipeSaveEnd(s))
                       /\ WF_vars(PipeFinalize(s))
    /\ WF_vars(RunStart(IntervalJob))
    /\ WF_vars(RunScan(IntervalJob))
    /\ WF_vars(RunMark(IntervalJob))
    /\ WF_vars(RunWriteBegin(IntervalJob))
    /\ WF_vars(RunWriteEnd(IntervalJob))

FairSpec == Spec /\ Fairness

\* The process starts with a journal and a sheet left by earlier runs of the
\* process (both persist across restarts) and no request has come in yet.
RestJournals ==
    UNION { { j \in [1..n -> [sub : Subs \cup 1..MaxRecords, id : Ids, has : {"No"},
                               status : {"None"}, err : {""}, synced : BOOLEAN]] :
                \A i \in 1..n : j[i].sub = i }
            : n \in 1..MaxRecords }

RestSheets(j) ==
    UNION { [1..n -> {RowValues(j[i].id, j[i].sub, FALSE, "") : i \in DOMAIN j}]
            : n \in 0..Len(j) }

InitRest ==
    /\ journal \in RestJournals
    /\ remote \in RestSheets(journal)
    /\ sub = [s \in Subs |-> IdleSub]
    /\ run = [r \in Runs |-> IdleRun]
    /\ loop = 0
    /\ faults = MaxFaults
    /\ call = IdleCall
    /\ pipe = IdlePipe
    /\ disk = IdleDisk
    /\ sweep = IdleSweep
    /\ cells = IdleCells
    /\ guard = IdleGuard

\* one reconciliation thread over a journal at rest
NextRecon ==
    \/ RunStart(IntervalJob)
    \/ RunScan(IntervalJob)
    \/ RunMark(IntervalJob)
    \/ RunWriteBegin(IntervalJob)
    \/ RunWriteEnd(IntervalJob)

SpecRecon == InitRest /\ [][NextRecon]_vars

\* every reconciliation thread over a journal at rest
NextRuns ==
    \/ \E r \in Runs : RunStart(r)
    \/ \E r \in Runs : RunScan(r)
    \/ \E r \in Runs : RunMark(r)
    \/ \E r \in Runs : RunWriteBegin(r)
    \/ \E r \in Runs : RunWriteEnd(r)

SpecRuns == InitRest /\ [][NextRuns]_vars

\* A record is in the journal without a row; the pipeline or a run writes
\* its row, under either use_excel_api setting and any max_retries up to the
\* default.
InitWrite ==
    /\ journal = <<InitialRecord(1, 1, FALSE)>>
    /\ remote = <<>>
    /\ sub = [s \in Subs |-> IdleSub]
    /\ run = [r \in Runs |-> IdleRun]
    /\ loop = 0
    /\ faults = MaxFaults
    /\ pipe = IdlePipe
    /\ disk = IdleDisk
    /\ sweep = IdleSweep
    /\ cells = IdleCells
    /\ guard = IdleGuard
    /\ \E who \in {"pipeline", "run"}, api \in BOOLEAN, maxRetries \in 1..DefaultMaxRetries :
          call = NewCall(who, api, maxRetries, 1)

NextWrite ==
    \/ CallPrepare
    \/ CallAttempt
    \/ CallRetry
    \/ CallAgain

SpecWrite == InitWrite /\ [][NextWrite]_vars

\* lists of at most n filenames
NameLists(n) == UNION {[1..k -> Names] : k \in 0..n}

\* One submission with up to MaxItems attachments goes through its pipeline
\* under each setting of sharepoint.enabled.
InitPipe ==
    /\ journal = <<>>
    /\ remote = <<>>
    /\ sub = [s \in Subs |-> IdleSub]
    /\ run = [r \in Runs |-> IdleRun]
    /\ loop = 0
    /\ faults = MaxFaults
    /\ call = IdleCall
    /\ disk = IdleDisk
    /\ sweep = IdleSweep
    /\ cells = IdleCells
    /\ guard = IdleGuard
    /\ \E cfg \in Switch, names \in NameLists(MaxItems), form \in Forms :
          pipe = NewPipe(cfg, names, form)

NextPipe ==
    \/ PipeReject
    \/ PipeAppend
    \/ PipeRow
    \/ \E i \in 1..MaxItems : UploadStart(i)
    \/ \E i \in 1..MaxItems : UploadStage(i)
    \/ \E i \in 1..MaxItems : UploadEnd(i)
    \/ PipeGather
    \/ PipeStatus
    \/ PipeNotify

SpecPipe == InitPipe /\ [][NextPipe]_vars

\* ------------------------------------- remote calls that never answer

\* the timeout argument of the request a kind of remote call makes, in
\* seconds; 0 when the request is made without one and waits without limit
CallTimeout(kind) == IF kind = "token" THEN 30 ELSE 0

\* the remote request the coroutine is waiting for at each step
Pending(p) ==
    CASE p.pc = "row" /\ ExcelEnabled(p.cfg) -> "row"
      [] p.pc = "uploads" /\ \E i \in DOMAIN p.items : p.items[i] = "running" -> "upload"
      [] p.pc = "status" /\ p.n > 0 -> "row"
      [] p.pc = "notify" -> "mail"
      [] OTHER -> "none"

\* the service never answers the request in flight: with a timeout the request
\* raises and the step takes its failure branch; without one the thread that
\* made the request stays in it
PipeHang ==
    /\ Pending(pipe) # "none"
    /\ CallTimeout(Pending(pipe)) = 0
    /\ pipe' = [pipe EXCEPT !.pc = "hung"]
    /\ UNCHANGED <<journal, remote, sub, run, loop, faults, call, disk, sweep, cells, guard>>

\* The pipeline of SpecPipe against a remote service that may stop answering;
\* the event loop and the worker threads run whatever can run.
NextLive ==
    \/ PipeReject
    \/ PipeAppend
    \/ PipeRow
    \/ \E i \in 1..MaxItems : UploadStart(i)
    \/ \E i \in 1..MaxItems : UploadStage(i)
    \/ \E i \in 1..MaxItems : UploadEnd(i)
    \/ PipeGather
    \/ PipeStatus
    \/ PipeNotify
    \/ PipeHang

SpecLive == InitPipe /\ [][NextLive]_vars /\ WF_vars(NextLive)

\* ------------------------------------------- the journal file on disk

\* In this part journal is what json.load returns from the file when the file
\* can be read, and disk says whether it can: open(path, 'w') empties the file
\* before json.dump fills it, so a dump that raises (or a process that dies)
\* leaves a file that json.load rejects.

\* the request id of the k-th record written before the process started
OldId(k) == MaxSubs + k

\* a journal of k records left by an earlier run of the process
OldJournal(k) == [i \in 1..k |-> InitialRecord(0, OldId(i), FALSE)]

\* nothing has been done to the file yet
NoOp == [op |-> "none", s |-> 0, index |-> -1, inRange |-> TRUE,
         changed |-> FALSE, result |-> "None"]

NewDisk(k) ==
    [state |-> "ok", faults |-> MaxFaults, purges |-> MaxPurges,
     persisted |-> {OldId(i) : i \in 1..k}, last |-> NoOp]

\* I/O errors an operation consumes
Cost(rf, wf) == (IF rf THEN 1 ELSE 0) + (IF wf THEN 1 ELSE 0)

\* what an update function leaves for its caller: it returns None on every
\* path and lets no exception out
PatchResult(readOk, inRange) == "None"

\* the read-modify-write of update_sync_status / update_attachment_status:
\* rf and wf are an I/O error of the read and of the write
PatchFile(op, s, index, patched, rf, wf) ==
    LET readOk == ~rf /\ disk.state = "ok"
        inRange == 0 <= index /\ index < Len(journal)
        last == [op |-> op, s |-> s, index |-> index,
                 inRange |-> (~readOk \/ inRange),
                 changed |-> (readOk /\ inRange),
                 result |-> PatchResult(readOk, inRange)]
    IN  /\ Cost(rf, wf) <= disk.faults
        /\ wf => (readOk /\ inRange)
        /\ journal' = IF ~readOk \/ ~inRange THEN journal
                       ELSE IF wf THEN <<>> ELSE patched
        /\ disk' = [disk EXCEPT !.faults = disk.faults - Cost(rf, wf),
                                !.state = IF wf THEN "torn" ELSE disk.state,
                                !.last = last]

\* save_initial_record: existing_data stays [] when json.load raises
Existing(records, readOk) == IF readOk THEN records ELSE <<>>

\* POST /api/submit: save_initial_record returns the index, or None (-1)
StoreAppend(s) ==
    /\ sub[s].pc = "new"
    /\ \E hasAtt, rf, wf \in BOOLEAN :
        LET readOk == ~rf /\ disk.state = "ok"
            existing == Existing(journal, readOk)
        IN  /\ Cost(rf, wf) <= disk.faults
            /\ journal' = IF wf THEN <<>>
                           ELSE Append(existing, InitialRecord(s, s, hasAtt))
            /\ disk' = [disk EXCEPT
                          !.faults = disk.faults - Cost(rf, wf),
                          !.state = IF wf THEN "torn" ELSE "ok",
                          !.persisted = IF wf THEN disk.persisted
                                        ELSE disk.persisted \cup {s},
                          !.last = [NoOp EXCEPT !.op = "append", !.s = s,
                                                !.changed = TRUE]]
            /\ sub' = [sub EXCEPT ![s].pc = "queued", ![s].id = s,
                                  ![s].hasAtt = hasAtt,
                                  ![s].idx = IF wf THEN -1 ELSE Len(existing)]
    /\ UNCHANGED <<remote, run, loop, faults, call, pipe, sweep, cells, guard>>

\* save_to_excel: update_sync_status(request_id, json_index, synced=True) when
\* the row was written and json_index is not None
StoreSync(s) ==
    /\ sub[s].pc = "queued"
    /\ \/ /\ sub[s].idx # -1
          /\ \E rf, wf \in BOOLEAN :
                PatchFile("sync", s, sub[s].idx,
                          SetSynced(journal, sub[s].idx, TRUE), rf, wf)
          /\ sub' = [sub EXCEPT ![s].pc = "finalize", ![s].saved = TRUE]
       \/ /\ sub' = [sub EXCEPT ![s].pc = "finalize"]
          /\ UNCHANGED <<journal, disk>>
    /\ UNCHANGED <<remote, run, loop, faults, call, pipe, sweep, cells, guard>>

\* process_submission: update_attachment_status when json_index is not None
StoreStatus(s) ==
    /\ sub[s].pc = "finalize"
    /\ \/ /\ sub[s].idx # -1
          /\ \E anySaved, anyError, rf, wf \in BOOLEAN :
                /\ sub[s].hasAtt => (anySaved \/ anyError)
                /\ ~sub[s].hasAtt => (~anySaved /\ ~anyError)
                /\ PatchFile("status", s, sub[s].idx,
                             SetAttachment(journal, sub[s].idx, anySaved, anyError),
                             rf, wf)
       \/ /\ sub[s].idx = -1
          /\ UNCHANGED <<journal, disk>>
    /\ sub' = [sub EXCEPT ![s].pc = "done"]
    /\ UNCHANGED <<remote, run, loop, faults, call, pipe, sweep, cells, guard>>

\* POST /api/data/json/delete: the records whose Request_ID is in ids are
\* filtered out and the file is written again
StorePurge ==
    /\ disk.purges > 0
    /\ disk.state = "ok"
    /\ \E ids \in SUBSET {journal[i].id : i \in DOMAIN journal}, wf \in BOOLEAN :
        /\ ids # {}
        /\ Cost(FALSE, wf) <= disk.faults
        /\ journal' = IF wf THEN <<>>
                       ELSE SelectSeq(journal, LAMBDA e : e.id \notin ids)
        /\ disk' = [disk EXCEPT
                      !.purges = disk.purges - 1,
                      !.faults = disk.faults - Cost(FALSE, wf),
                      !.state = IF wf THEN "torn" ELSE "ok",
                      !.persisted = disk.persisted \ ids,
                      !.last = [NoOp EXCEPT !.op = "purge", !.changed = TRUE]]
    /\ UNCHANGED <<remote, sub, run, loop, faults, call, pipe, sweep, cells, guard>>

\* Submissions, one after the other on the event loop, against a journal file
\* that holds up to MaxRecords older records.
InitStore ==
    /\ \E k \in 0..MaxRecords : journal = OldJournal(k) /\ disk = NewDisk(k)
    /\ remote = <<>>
    /\ sub = [s \in Subs |-> IdleSub]
    /\ run = [r \in Runs |-> IdleRun]
    /\ loop = 0
    /\ faults = MaxFaults
    /\ call = IdleCall
    /\ pipe = IdlePipe
    /\ sweep = IdleSweep
    /\ cells = IdleCells
    /\ guard = IdleGuard

NextStore ==
    \/ \E s \in Subs : StoreAppend(s)
    \/ \E s \in Subs : StoreSync(s)
    \/ \E s \in Subs : StoreStatus(s)
    \/ StorePurge

SpecStore == InitStore /\ [][NextStore]_vars

\* ------------------------------------------ cleanup_old_attachments

\* sharepoint_config.get('attachment_retention_days', 90)
RetentionOf(c) == IF c.present THEN c.v ELSE RetentionDays

\* the settings of attachment_retention_days tried: key not present, 30 days
Retentions == {Absent, Given(30)}

\* the children of the Attachments folder: sub-folders, files whose item has
\* no createdDateTime (created = -1), and files created the given number of
\* days before the sweep, around the retention window of d days
Children(d) ==
    {[kind |-> "folder", created |-> d + 1]}
    \cup [kind : {"file"}, created : {-1, d - 1, d, d + 1}]

\* a filter that also takes the files created exactly d days ago
NotYounger(child, d) ==
    child.kind = "file" /\ child.created # -1 /\ child.created >= d

\* get_files_older_than keeps child: 'folder' not in child, createdDateTime
\* present and created_date < now - timedelta(days=d)
Older(child, d) ==
    child.kind = "file" /\ child.created # -1 /\ child.created > d

\* old_files: the children kept, in the order of the folder listing
OldFiles(files, d) == SelectSeq([i \in 1..Len(files) |-> i], LAMBDA f : Older(files[f], d))

\* scheduler: self.sharepoint_config.get('enabled', False)
SweepEnabled(cfg) == cfg = "true"

NewSweep(cfg, c, files) ==
    [pc |-> "idle", cfg |-> cfg, retention |-> RetentionOf(c), files |-> files,
     present |-> [f \in 1..Len(files) |-> TRUE],
     listed |-> <<>>, k |-> 1, deleted |-> 0, failed |-> 0,
     attempts |-> [f \in 1..Len(files) |-> 0]]

\* the sweep up to the loop: it returns when SharePoint is disabled, when the
\* token or the folder lookup raises, when the listing raises (the helper
\* returns []) and when no file is old enough
SweepStart ==
    /\ sweep.pc = "idle"
    /\ \/ /\ SweepEnabled(sweep.cfg)
          /\ LET old == OldFiles(sweep.files, sweep.retention) IN
             sweep' = [sweep EXCEPT !.listed = old,
                                    !.pc = IF old = <<>> THEN "done" ELSE "deleting"]
       \/ sweep' = [sweep EXCEPT !.pc = "done"]
    /\ UNCHANGED <<journal, remote, sub, run, loop, faults, call, pipe, disk, cells, guard>>

\* a loop body that also drops the journal entry when the file is gone
SweepDeleteForget ==
    /\ sweep.pc = "deleting"
    /\ sweep.k <= Len(sweep.listed)
    /\ sweep' = [sweep EXCEPT !.k = sweep.k + 1, !.deleted = sweep.deleted + 1,
                              !.attempts[sweep.listed[sweep.k]] = 1,
                              !.present[sweep.listed[sweep.k]] = FALSE]
    /\ journal' = IF journal = <<>> THEN journal ELSE Tail(journal)
    /\ UNCHANGED <<remote, sub, run, loop, faults, call, pipe, disk, cells, guard>>

\* a loop that a failed delete ends
SweepDeleteAbort ==
    /\ sweep.pc = "deleting"
    /\ sweep.k <= Len(sweep.listed)
    /\ \/ sweep' = [sweep EXCEPT !.k = sweep.k + 1, !.deleted = sweep.deleted + 1,
                                 !.attempts[sweep.listed[sweep.k]] = 1,
                                 !.present[sweep.listed[sweep.k]] = FALSE]
       \/ sweep' = [sweep EXCEPT !.pc = "done", !.failed = sweep.failed + 1,
                                 !.attempts[sweep.listed[sweep.k]] = 1]
    /\ UNCHANGED <<journal, remote, sub, run, loop, faults, call, pipe, disk, cells, guard>>

\* one pass of the for loop: delete_file returns True, returns False (status
\* other than 200/204, or its own except branch), or raises
SweepDelete ==
    /\ sweep.pc = "deleting"
    /\ sweep.k <= Len(sweep.listed)
    /\ LET f == sweep.listed[sweep.k] IN
       \E outcome \in {"deleted", "refused", "raised"} :
          sweep' = [sweep EXCEPT
                      !.k = sweep.k + 1,
                      !.attempts[f] = sweep.attempts[f] + 1,
                      !.present[f] = (outcome # "deleted"),
                      !.deleted = sweep.deleted + (IF outcome = "deleted" THEN 1 ELSE 0),
                      !.failed = sweep.failed + (IF outcome = "deleted" THEN 0 ELSE 1)]
    /\ UNCHANGED <<journal, remote, sub, run, loop, faults, call, pipe, disk, cells, guard>>

\* the loop is over: the counts are logged
SweepFinish ==
    /\ sweep.pc = "deleting"
    /\ sweep.k > Len(sweep.listed)
    /\ sweep' = [sweep EXCEPT !.pc = "done"]
    /\ UNCHANGED <<journal, remote, sub, run, loop, faults, call, pipe, disk, cells, guard>>

\* One sweep over an Attachments folder with up to MaxFiles children, next to a
\* journal that holds records.
InitSweep ==
    /\ \E k \in 1..MaxRecords : journal = OldJournal(k)
    /\ remote = <<>>
    /\ sub = [s \in Subs |-> IdleSub]
    /\ run = [r \in Runs |-> IdleRun]
    /\ loop = 0
    /\ faults = MaxFaults
    /\ call = IdleCall
    /\ pipe = IdlePipe
    /\ disk = IdleDisk
    /\ cells = IdleCells
    /\ guard = IdleGuard
    /\ \E cfg \in Switch, c \in Retentions, n \in 0..MaxFiles :
          \E files \in [1..n -> Children(RetentionOf(c))] :
             sweep = NewSweep(cfg, c, files)

NextSweep ==
    \/ SweepStart
    \/ SweepDelete
    \/ SweepFinish

SpecSweep == InitSweep /\ [][NextSweep]_vars

\* --------------------------------------------- the cells of a sheet row

\* the keys of the posted form, in the order of the sheet
Fields ==
    <<"deliveryNoteNumber", "truckLicensePlates", "trailerLicensePlates",
      "carrierCountry", "carrierTaxCode", "carrierFullName", "borderCrossing",
      "borderCrossingDate", "email", "phoneNumber">>

FieldSet == {Fields[i] : i \in DOMAIN Fields}

\* dict.get(key, default)
Get(d, key, default) == IF key \in DOMAIN d THEN d[key] ELSE default

\* the posted forms tried: every field holds a text of its own, with or
\* without blanks around it; phoneNumber is optional and may be missing, empty
\* or null
RowForms ==
    UNION { { [f \in FieldSet |-> v \o f],
              [f \in FieldSet \ {"phoneNumber"} |-> v \o f],
              [f \in FieldSet |-> IF f = "phoneNumber" THEN "" ELSE v \o f],
              [f \in FieldSet |-> IF f = "phoneNumber" THEN "null" ELSE v \o f] }
            : v \in {"", " "} }

\* row_data of save_initial_record
SaveRecord(id, now, d, hasAtt) ==
    [ Request_ID |-> id,
      Timestamp |-> now,
      Delivery_Note_Number |-> Get(d, "deliveryNoteNumber", ""),
      Truck_License_Plates |-> Get(d, "truckLicensePlates", ""),
      Trailer_License_Plates |-> Get(d, "trailerLicensePlates", ""),
      Carrier_Country |-> Get(d, "carrierCountry", ""),
      Carrier_Tax_Code |-> Get(d, "carrierTaxCode", ""),
      Carrier_Full_Name |-> Get(d, "carrierFullName", ""),
      Border_Crossing |-> Get(d, "borderCrossing", ""),
      Border_Crossing_Date |-> Get(d, "borderCrossingDate", ""),
      Email |-> Get(d, "email", ""),
      Phone_Number |-> Get(d, "phoneNumber", ""),
      Has_Attachment |-> IF hasAtt THEN "Processing" ELSE "No",
      Attachment_Status |-> IF hasAtt THEN "Processing" ELSE "None",
      Attachment_Error |-> "",
      SharePoint_Synced |-> FALSE ]

\* a conversion that loses the phone number
ConvertWithoutPhone(record) ==
    [ deliveryNoteNumber |-> Get(record, "Delivery_Note_Number", ""),
      truckLicensePlates |-> Get(record, "Truck_License_Plates", ""),
      trailerLicensePlates |-> Get(record, "Trailer_License_Plates", ""),
      carrierCountry |-> Get(record, "Carrier_Country", ""),
      carrierTaxCode |-> Get(record, "Carrier_Tax_Code", ""),
      carrierFullName |-> Get(record, "Carrier_Full_Name", ""),
      borderCrossing |-> Get(record, "Border_Crossing", ""),
      borderCrossingDate |-> Get(record, "Border_Crossing_Date", ""),
      email |-> Get(record, "Email", "") ]

\* _convert_record_to_form_data
ConvertRecord(record) ==
    [ deliveryNoteNumber |-> Get(record, "Delivery_Note_Number", ""),
      truckLicensePlates |-> Get(record, "Truck_License_Plates", ""),
      trailerLicensePlates |-> Get(record, "Trailer_License_Plates", ""),
      carrierCountry |-> Get(record, "Carrier_Country", ""),
      carrierTaxCode |-> Get(record, "Carrier_Tax_Code", ""),
      carrierFullName |-> Get(record, "Carrier_Full_Name", ""),
      borderCrossing |-> Get(record, "Border_Crossing", ""),
      borderCrossingDate |-> Get(record, "Border_Crossing_Date", ""),
      email |-> Get(record, "Email", ""),
      phoneNumber |-> Get(record, "Phone_Number", "") ]

\* row_values of _save_via_excel_api: columns A..N
ApiRow(id, d, has, err) ==
    << id,
       Get(d, "deliveryNoteNumber", ""),
       Get(d, "truckLicensePlates", ""),
       Get(d, "trailerLicensePlates", ""),
       Get(d, "carrierCountry", ""),
       Get(d, "carrierTaxCode", ""),
       Get(d, "carrierFullName", ""),
       Get(d, "borderCrossing", ""),
       Get(d, "borderCrossingDate", ""),
       Get(d, "email", ""),
       Get(d, "phoneNumber", ""),
       IF has THEN "Yes" ELSE "No",
       AttachmentStatus(has, err),
       err >>

\* new_row of _save_via_traditional: columns A..O, the time of the write in B
TraditionalRow(id, now, d, has, err) ==
    << id,
       now,
       Get(d, "deliveryNoteNumber", ""),
       Get(d, "truckLicensePlates", ""),
       Get(d, "trailerLicensePlates", ""),
       Get(d, "carrierCountry", ""),
       Get(d, "carrierTaxCode", ""),
       Get(d, "carrierFullName", ""),
       Get(d, "borderCrossing", ""),
       Get(d, "borderCrossingDate", ""),
       Get(d, "email", ""),
       Get(d, "phoneNumber", ""),
       IF has THEN "Yes" ELSE "No",
       AttachmentStatus(has, err),
       err >>

\* the row either writer inserts under the configured use_excel_api
NewRow(api, id, now, d, has, err) ==
    IF api THEN ApiRow(id, d, has, err) ELSE TraditionalRow(id, now, d, has, err)

\* the number of a column letter
Letters == <<"A", "B", "C", "D", "E", "F", "G", "H", "I", "J", "K", "L", "M", "N", "O">>

ColumnOf(letter) == CHOOSE i \in DOMAIN Letters : Letters[i] = letter

\* updates of ExcelHelper.update_attachment_status
StatusUpdates(has, err) ==
    [ L |-> IF has THEN "Yes" ELSE "No",
      M |-> AttachmentStatus(has, err),
      N |-> err ]

\* update_excel_row_by_id: one PATCH per column letter of updates
PatchCells(row, updates) ==
    [i \in DOMAIN row |->
        IF \E l \in DOMAIN updates : ColumnOf(l) = i
        THEN updates[CHOOSE l \in DOMAIN updates : ColumnOf(l) = i]
        ELSE row[i]]

NewCells(form, api, hasAtt) ==
    [pc |-> "form", form |-> form, api |-> api, hasAtt |-> hasAtt, id |-> "REQ-1",
     who |-> "none", record |-> <<>>, inserted |-> <<>>, row |-> <<>>]

\* save_initial_record at intake
RowJournal ==
    /\ cells.pc = "form"
    /\ cells' = [cells EXCEPT !.pc = "journaled",
                              !.record = SaveRecord(cells.id, "t0", cells.form,
                                                    cells.hasAtt)]
    /\ UNCHANGED <<journal, remote, sub, run, loop, faults, call, pipe, disk, sweep, guard>>

\* the row is inserted by the pipeline, from the posted form
RowByPipeline ==
    /\ cells.pc = "journaled"
    /\ LET row == NewRow(cells.api, cells.id, "t1", cells.form, cells.hasAtt,
                         IF cells.hasAtt THEN "Processing..." ELSE "")
       IN  cells' = [cells EXCEPT !.pc = "inserted", !.who = "pipeline",
                                  !.inserted = row, !.row = row]
    /\ UNCHANGED <<journal, remote, sub, run, loop, faults, call, pipe, disk, sweep, guard>>

\* the row is inserted by a reconciliation run, from the journal record as the
\* pipeline left it: still Processing, or with its final status
RowByRun ==
    /\ cells.pc = "journaled"
    /\ \E has \in {"Processing", "Yes", "No"}, err \in {"", "failed a.pdf"} :
        /\ has = "Processing" => (cells.hasAtt /\ err = "")
        /\ has = "Yes" => cells.hasAtt
        /\ ~cells.hasAtt => err = ""
        /\ LET record == [cells.record EXCEPT !.Has_Attachment = has,
                                               !.Attachment_Error = err]
               row == NewRow(cells.api, Get(record, "Request_ID", ""), "t1",
                             ConvertRecord(record),
                             Get(record, "Has_Attachment", "No") = "Yes",
                             Get(record, "Attachment_Error", ""))
           IN  cells' = [cells EXCEPT !.pc = "inserted", !.who = "run",
                                      !.record = record,
                                      !.inserted = row, !.row = row]
    /\ UNCHANGED <<journal, remote, sub, run, loop, faults, call, pipe, disk, sweep, guard>>

\* STEP 3 of the pipeline: update_attachment_status of the sheet row
RowStatus ==
    /\ cells.pc = "inserted"
    /\ cells.who = "pipeline"
    /\ cells.hasAtt
    /\ \E has \in BOOLEAN, err \in {"", "failed a.pdf"} :
        /\ has \/ err # ""
        /\ cells' = [cells EXCEPT !.pc = "patched",
                                  !.row = PatchCells(cells.row, StatusUpdates(has, err))]
    /\ UNCHANGED <<journal, remote, sub, run, loop, faults, call, pipe, disk, sweep, guard>>

\* One submission, its journal record and its sheet row under both settings of
\* use_excel_api.
InitRow ==
    /\ journal = <<>>
    /\ remote = <<>>
    /\ sub = [s \in Subs |-> IdleSub]
    /\ run = [r \in Runs |-> IdleRun]
    /\ loop = 0
    /\ faults = MaxFaults
    /\ call = IdleCall
    /\ pipe = IdlePipe
    /\ disk = IdleDisk
    /\ sweep = IdleSweep
    /\ \E form \in RowForms, api, hasAtt \in BOOLEAN :
          cells = NewCells(form, api, hasAtt)
    /\ guard = IdleGuard

NextCells ==
    \/ RowJournal
    \/ RowByPipeline
    \/ RowByRun
    \/ RowStatus

SpecRow == InitRow /\ [][NextCells]_vars

\* ------------------------------------------ failures of the collaborators

Collaborators == {"token", "table", "files", "notifier", "journal"}

EntryPoints == {"process_submission", "sync_json_to_sharepoint", "cleanup_old_attachments"}

\* an except Exception clause that logs and goes on at step to
Catch(to) == [kind |-> "catch", to |-> to]

\* an except clause that logs and raises again, or a with block
Reraise == [kind |-> "reraise", to |-> 0]

\* a call of collaborators under the handlers that enclose it, outermost first
Step(collabs, frames) == [collabs |-> collabs, frames |-> frames]

\* an entry point whose body is not wrapped
Unguarded(end) == Reraise

\* the try/except Exception around the whole body of an entry point
Outer(end) == Catch(end)

\* process_submission for a submission with one attachment and an email
PipelineSteps ==
    << Step({"token", "table"}, <<Outer(7), Catch(3), Reraise>>),
       Step({"journal"},        <<Outer(7), Catch(3), Catch(3), Catch(3)>>),
       Step({"token", "files"}, <<Outer(7), Catch(4), Catch(4)>>),
       Step({"token", "table"}, <<Outer(7), Catch(5)>>),
       Step({"journal"},        <<Outer(7), Catch(6), Catch(6)>>),
       Step({"token", "notifier"}, <<Outer(7), Catch(7), Catch(7)>>) >>

\* sync_json_to_sharepoint for a journal with two records to write
RunSteps ==
    << Step({"journal"},        <<Outer(8)>>),
       Step({"token"},          <<Outer(8)>>),
       Step({"files"},          <<Outer(8)>>),
       Step({"token", "table"}, <<Outer(8), Reraise, Catch(6), Reraise>>),
       Step({"journal"},        <<Outer(8), Reraise, Catch(6), Catch(6)>>),
       Step({"token", "table"}, <<Outer(8), Reraise, Catch(8), Reraise>>),
       Step({"journal"},        <<Outer(8), Reraise, Catch(8), Catch(8)>>) >>

\* cleanup_old_attachments for a folder with two old files
SweepSteps ==
    << Step({"token"}, <<Outer(6)>>),
       Step({"files"}, <<Outer(6), Catch(6)>>),
       Step({"files"}, <<Outer(6)>>),
       Step({"files"}, <<Outer(6), Catch(5)>>),
       Step({"files"}, <<Outer(6), Catch(6)>>) >>

StepsOf(op) ==
    CASE op = "process_submission" -> PipelineSteps
      [] op = "sync_json_to_sharepoint" -> RunSteps
      [] op = "cleanup_old_attachments" -> SweepSteps

NewGuard(op) ==
    [st |-> "running", op |-> op, pc |-> 1, depth |-> 0, by |-> "none", caught |-> {}]

\* the call at pc returns
GuardReturn ==
    /\ guard.st = "running"
    /\ guard.pc <= Len(StepsOf(guard.op))
    /\ guard' = [guard EXCEPT !.pc = guard.pc + 1]
    /\ UNCHANGED <<journal, remote, sub, run, loop, faults, call, pipe, disk, sweep, cells>>

\* one of the collaborators of the call at pc raises
GuardRaise ==
    /\ guard.st = "running"
    /\ guard.pc <= Len(StepsOf(guard.op))
    /\ \E c \in StepsOf(guard.op)[guard.pc].collabs :
          guard' = [guard EXCEPT !.st = "raising", !.by = c,
                                 !.depth = Len(StepsOf(guard.op)[guard.pc].frames)]
    /\ UNCHANGED <<journal, remote, sub, run, loop, faults, call, pipe, disk, sweep, cells>>

\* the exception in flight reaches the next enclosing handler, or leaves the
\* entry point when there is none
GuardUnwind ==
    /\ guard.st = "raising"
    /\ IF guard.depth = 0
       THEN guard' = [guard EXCEPT !.st = "escaped"]
       ELSE LET frame == StepsOf(guard.op)[guard.pc].frames[guard.depth]
            IN  IF frame.kind = "catch"
                THEN guard' = [guard EXCEPT
                        !.st = "running", !.pc = frame.to, !.depth = 0, !.by = "none",
                        !.caught = @ \cup {<<guard.pc, guard.depth, guard.by>>}]
                ELSE guard' = [guard EXCEPT !.depth = guard.depth - 1]
    /\ UNCHANGED <<journal, remote, sub, run, loop, faults, call, pipe, disk, sweep, cells>>

\* the body is over: the entry point returns to the task runner or scheduler
GuardEnd ==
    /\ guard.st = "running"
    /\ guard.pc > Len(StepsOf(guard.op))
    /\ guard' = [guard EXCEPT !.st = "returned"]
    /\ UNCHANGED <<journal, remote, sub, run, loop, faults, call, pipe, disk, sweep, cells>>

\* One call of one entry point; every call of a collaborator may raise.
InitGuard ==
    /\ journal = <<>>
    /\ remote = <<>>
    /\ sub = [s \in Subs |-> IdleSub]
    /\ run = [r \in Runs |-> IdleRun]
    /\ loop = 0
    /\ faults = MaxFaults
    /\ call = IdleCall
    /\ pipe = IdlePipe
    /\ disk = IdleDisk
    /\ sweep = IdleSweep
    /\ cells = IdleCells
    /\ \E op \in EntryPoints : guard = NewGuard(op)

NextGuard ==
    \/ GuardReturn
    \/ GuardRaise
    \/ GuardUnwind
    \/ GuardEnd

SpecGuard == InitGuard /\ [][NextGuard]_vars

\* ----------------------------------------------------------------- claims

RemoteIds(sheet) == {sheet[i].id : i \in DOMAIN sheet}

\* Submit has returned its id for submission s
Returned(s) == sub[s].pc \notin {"new", "arrived"}

\* the submissions accepted so far drew different ids (C5 is about the ids)
DistinctIds ==
    \A s, t \in Subs : (s # t /\ Returned(s) /\ Returned(t)) => sub[s].id # sub[t].id

\* C1: the remote table never holds two rows with the same submission id,
\* stated for submissions whose ids differ.
C1_NoDuplicateRemoteRows ==
    DistinctIds => \A i, j \in DOMAIN remote : i # j => remote[i].id # remote[j].id

\* C2: every submission whose Submit returned an id eventually has a row with
\* that id in the sheet, when runs keep starting, every started step is
\* eventually taken and remote calls stop failing (FairSpec).
C2_AtLeastOnceDelivery ==
    \A s \in Subs : Returned(s) ~> (sub[s].id \in RemoteIds(remote))

\* C3: when every pipeline has finished and no run is in flight, the journal
\* holds exactly one entry per append and shows every patch: the sync flag of
\* each submission whose row write was acknowledged and the attachment status
\* each pipeline computed.
C3_NoLostWrites ==
    ((\A s \in Subs : sub[s].pc = "done") /\ (\A r \in Runs : run[r].pc = "idle"))
        => /\ Len(journal) = MaxSubs
           /\ \A s \in Subs :
                \E i \in DOMAIN journal :
                    /\ journal[i].sub = s
                    /\ journal[i].status = sub[s].status
                    /\ sub[s].saved => journal[i].synced

\* C4: once two Submit calls have both returned, the journal holds both
\* entries, each with its own values, and the two returned indices differ.
C4_BothAppendsKept ==
    \A s, t \in Subs :
        (s # t /\ Returned(s) /\ Returned(t))
            => /\ sub[s].idx # sub[t].idx
               /\ \E i, j \in DOMAIN journal :
                    /\ i # j
                    /\ journal[i].sub = s /\ journal[i].id = sub[s].id
                    /\ journal[j].sub = t /\ journal[j].id = sub[t].id

\* C5: no two journal entries have the same id.
C5_UniqueJournalIds ==
    \A i, j \in DOMAIN journal : i # j => journal[i].id # journal[j].id

\* C6: once an entry's SharePoint_Synced is true in the journal file, no later
\* content of the file shows that entry with the flag false (stated for
\* submissions whose ids differ).
C6_SyncedMonotonic ==
    [][DistinctIds =>
          \A i \in DOMAIN journal : \A j \in DOMAIN journal' :
              (journal[i].sub = journal'[j].sub /\ journal[i].synced)
                  => journal'[j].synced]_vars

\* C7: no reconciliation run starts while another run is in flight.
C7_NoOverlappingRuns ==
    [][\A r \in Runs :
          (run[r].pc = "idle" /\ run'[r].pc # "idle")
              => \A q \in Runs \ {r} : run[q].pc = "idle"]_vars

\* C8: a Submit call that has started never waits behind a remote row write:
\* while a request awaits its response no pipeline is inside add_excel_row on
\* the event loop thread.
C8_SubmitNeverWaitsForRemote ==
    \A s, t \in Subs : sub[s].pc = "arrived" => sub[t].pc # "writing"

\* a run ends having got past the scan
Completes(r) == run[r].pc \in {"marking", "syncing", "writing"} /\ run'[r].pc = "idle"

AllSynced(records) == \A i \in DOMAIN records : records[i].synced

\* the scan of run r found the id of every record the run holds as unsynced
AllFound(r) ==
    /\ run[r].pc \in {"marking", "syncing", "writing"}
    /\ \A k \in DOMAIN run[r].unsynced :
          run[r].recs[run[r].unsynced[k]].id \in run[r].existing

\* C9: with no submission coming in, a run whose scan finds a row for every
\* unsynced entry writes no row and ends with every entry of the journal
\* synced; and a run over a journal whose entries are all synced changes
\* neither the journal nor the sheet.
C9_IdempotentConvergence ==
    [][/\ AllFound(IntervalJob)
            => /\ remote' = remote
               /\ run'[IntervalJob].pc = "idle" => AllSynced(journal')
       /\ (run[IntervalJob].pc # "idle" /\ AllSynced(journal))
            => (journal' = journal /\ remote' = remote)]_vars

\* a run is about to end after marking two entries it found remotely
C9_Witness ==
    /\ AllFound(IntervalJob)
    /\ Len(run[IntervalJob].unsynced) = 2
    /\ run[IntervalJob].k = 2

\* number of rows of the sheet whose column A holds id
RowCount(sheet, id) == Cardinality({i \in DOMAIN sheet : sheet[i].id = id})

C10_AlreadyRemoteMarked ==
    [][Completes(IntervalJob)
          => \A k \in DOMAIN run[IntervalJob].unsynced :
               LET rec == run[IntervalJob].recs[run[IntervalJob].unsynced[k]] IN
               rec.id \in run[IntervalJob].existing
                  => \E i \in DOMAIN journal' :
                        journal'[i].sub = rec.sub /\ journal'[i].synced]_vars

\* the run's write call for the record ended in the run's except clause and
\* every attempt it made failed because the file was locked
GaveUpOnLocked ==
    /\ call.state = "failed"
    /\ call.who = "run"
    /\ call.maxRetries = DefaultMaxRetries
    /\ call.made = Len(call.errs)
    /\ \A i \in DOMAIN call.errs : call.errs[i].cause = "locked"

\* C12: with max_retries = 3 and every attempt failing on a locked file, the
\* run retries the write 3 times after the first attempt, waiting longer each
\* time, then gives up with the record still unsynced.
C12_LockedRetryThenGiveUp ==
    GaveUpOnLocked
        => /\ call.made - 1 = DefaultMaxRetries
           /\ Len(call.waits) = DefaultMaxRetries
           /\ \A i \in 1..(Len(call.waits) - 1) : call.waits[i] < call.waits[i + 1]
           /\ ~journal[1].synced

\* C13: an attempt of the run that fails for another cause than a locked file
\* ends the call for this run, with the record left unsynced.
C13_NoRetryOnOtherError ==
    [][(/\ call.who = "run"
        /\ call.state = "trying"
        /\ Len(call'.errs) = Len(call.errs) + 1
        /\ call'.errs[Len(call'.errs)].cause # "locked")
          => (call'.state = "failed" /\ ~journal'[1].synced)]_vars

\* C16: the pipeline makes at most one attempt to write the row.
C16_PipelineWritesOnce ==
    call.who = "pipeline" => call.made <= 1

\* position of a step of the pipeline in the order of the specification
Rank(step) ==
    CASE step = "append" -> 1
      [] step = "row"    -> 2
      [] step = "upload" -> 3
      [] step = "status" -> 4
      [] step = "notify" -> 5

Running(items) == {i \in DOMAIN items : items[i] = "running"}

\* C14: the steps of one submission happen in the order append, row write,
\* uploads, status patch, notification, each of the four single steps at most
\* once, and uploads are in flight only between the row write and the status
\* patch.
C14_StepsInOrder ==
    /\ \A i, j \in DOMAIN pipe.log :
          i < j => /\ Rank(pipe.log[i]) <= Rank(pipe.log[j])
                   /\ Rank(pipe.log[i]) = Rank(pipe.log[j]) => pipe.log[i] = "upload"
    /\ Running(pipe.items) # {} => pipe.pc = "uploads"
    /\ pipe.pc \in {"received", "row"} => \A i \in DOMAIN pipe.items : pipe.items[i] = "pending"

\* a pipeline has gone through all five steps
C14_Witness ==
    /\ pipe.pc = "done"
    /\ {pipe.log[i] : i \in DOMAIN pipe.log} = {"append", "row", "upload", "status", "notify"}

\* C15: a pipeline whose row write failed still attempts every attachment,
\* patches the status of the journal entry and calls the notifier.
C15_RowFailureDoesNotStop ==
    (pipe.pc = "done" /\ pipe.rowFailed)
        => /\ \A i \in DOMAIN pipe.items : pipe.items[i] \in {"ok", "failed"}
           /\ pipe.files = {i \in DOMAIN pipe.items : pipe.items[i] = "ok"}
           /\ journal[1].status # "Processing"
           /\ journal[1].has # "Processing"
           /\ pipe.log[Len(pipe.log)] = "notify"

\* the row write failed and the pipeline went on to upload an attachment
C15_Witness ==
    /\ pipe.pc = "done"
    /\ pipe.rowFailed
    /\ pipe.files # {}

\* the pipeline of the submission has written its final status
Finalized == pipe.pc \in {"notify", "done"}

\* C17: at the end of a pipeline the Attachment_Status of the journal entry is
\* Saved iff at least one item succeeded, Failed iff none succeeded and at
\* least one failed, None iff the submission had no item.
C17_StatusAggregation ==
    Finalized
        => LET ok == {i \in DOMAIN pipe.items : pipe.items[i] = "ok"}
               failed == {i \in DOMAIN pipe.items : pipe.items[i] = "failed"}
           IN  /\ journal[1].status = "Saved" <=> ok # {}
               /\ journal[1].status = "Failed" <=> (ok = {} /\ failed # {})
               /\ journal[1].status = "None" <=> pipe.n = 0

\* the messages of the failed items among items 1..n, in order, joined
RECURSIVE FailedText(_)
FailedText(n) ==
    IF n = 0 THEN ""
    ELSE IF pipe.items[n] # "failed" THEN FailedText(n - 1)
    ELSE IF FailedText(n - 1) = "" THEN ErrorMsg(pipe.names[n])
    ELSE FailedText(n - 1) \o "; " \o ErrorMsg(pipe.names[n])

\* C18: when some items of a submission failed and some succeeded, the entry
\* is Saved, its Attachment_Error holds the message of each failed item and
\* of no other, and every successful item is in the remote file store.
C18_PartialFailure ==
    (/\ Finalized
     /\ \E i \in DOMAIN pipe.items : pipe.items[i] = "ok"
     /\ \E i \in DOMAIN pipe.items : pipe.items[i] = "failed")
        => /\ journal[1].status = "Saved"
           /\ journal[1].err = FailedText(pipe.n)
           /\ \A i \in DOMAIN pipe.items : pipe.items[i] = "ok" => i \in pipe.files

\* three attachments of which the second failed
C18_Witness ==
    /\ Finalized
    /\ pipe.items = <<"ok", "failed", "ok">>

\* C19: at most 3 uploads of the submission are in flight.
C19_AtMostThreeUploads ==
    Cardinality(Running(pipe.items)) <= 3

\* three uploads are in flight and a fourth item waits for a worker
C19_Witness ==
    /\ Cardinality(Running(pipe.items)) = 3
    /\ \E i \in DOMAIN pipe.items : pipe.items[i] = "pending"

\* C20: once the uploads of a submission have been gathered there is one
\* outcome per item: every item was attempted and is in exactly one of the
\* two result lists.
C20_OneOutcomePerItem ==
    (pipe.pc \in {"status", "notify", "done"} /\ UploadEnabled(pipe.cfg))
        => /\ \A i \in DOMAIN pipe.items : pipe.items[i] \in {"ok", "failed"}
           /\ Len(pipe.saved) + Len(pipe.errors) = pipe.n
           /\ \A i \in DOMAIN pipe.items :
                pipe.items[i] = "ok" <=> \E k \in DOMAIN pipe.saved : pipe.saved[k] = i

\* the first item failed and a later item was still uploaded
C20_Witness ==
    /\ pipe.pc = "status"
    /\ pipe.n >= 3
    /\ pipe.items[1] = "failed"
    /\ pipe.items[pipe.n] = "ok"

\* C21: once upload_single_attachment has returned for an item, on whichever
\* path, the scratch file staged for the item no longer exists.
C21_ScratchReleased ==
    \A i \in DOMAIN pipe.items :
        pipe.items[i] \in {"ok", "failed"} => i \notin pipe.scratch

\* C23: every entry that Append adds to the journal starts unsynced, with
\* status Processing when the submission has an attachment and None otherwise.
C23_EntryStartsUnsynced ==
    [][Len(journal') = Len(journal) + 1
          => LET e == journal'[Len(journal')] IN
             /\ e.synced = FALSE
             /\ e.status = IF pipe.n > 0 THEN "Processing" ELSE "None"]_vars

\* the entry of a submission with attachments has just been appended
C23_Witness ==
    /\ pipe.pc = "row"
    /\ pipe.n > 0
    /\ Len(journal) = 1
    /\ journal[1].status = "Processing"
    /\ ~journal[1].synced

\* the request bodies the intake has to reject: not JSON, a validated field
\* missing or empty, an email without '@' or without '.' after the '@'
BadForm(form) ==
    \/ ~form.json
    \/ ~form.truck.present
    \/ Strip(form.truck.v) = <<>>
    \/ ~form.email.present
    \/ ~Has(form.email.v, "@")
    \/ ~Has(LastPart(form.email.v), ".")

Exts == {".pdf", ".png"}

\* new_filename = f"attachment_{request_id}_{idx+1}{ext}"; the id has a fixed
\* layout, so the parts of the name can be told apart
RemoteName(id, idx, ext) == <<"attachment", id, idx + 1, ext>>

\* the pipeline of submission s has handed its attachments to the executor
Uploading(s) == sub[s].hasAtt /\ sub[s].pc \in {"finalize", "done"}

\* C22: two uploads use the same remote file name only if they belong to the
\* same submission and the same item ordinal.
C22_DistinctRemoteNames ==
    \A s, t \in Subs, i, j \in 0..(MaxItems - 1), e, f \in Exts :
        (/\ Uploading(s)
         /\ Uploading(t)
         /\ RemoteName(sub[s].id, i, e) = RemoteName(sub[t].id, j, f))
            => (s = t /\ i = j)

\* the ids of the records json.load returns
JournalIds == {journal[i].id : i \in DOMAIN journal}

\* C25: whatever fails in a journal mutation, every entry persisted before it
\* (and not purged since) is still in the file and the file can be read.
C25_PersistedEntriesSurvive ==
    (disk.state # "none" /\ disk.persisted # {})
        => /\ disk.state = "ok"
           /\ disk.persisted \subseteq JournalIds

\* C26: an update called with an index outside 0..len-1 tells its caller
\* NotFound and leaves the journal as it was.
C26_OutOfRangeReported ==
    (disk.state # "none" /\ disk.last.op \in {"sync", "status"} /\ ~disk.last.inRange)
        => /\ disk.last.result = "NotFound"
           /\ ~disk.last.changed

\* submission s makes one of its two journal patches in this step
PatchStep(s) == sub[s].pc \in {"queued", "finalize"} /\ sub'[s].pc # sub[s].pc

\* C27: with no I/O error at all, a patch made for submission s changes no
\* entry of another id, also after a purge removed entries.
C27_PatchHitsOwnEntry ==
    [][\A s \in Subs :
          (PatchStep(s) /\ disk.faults = MaxFaults /\ disk'.faults = MaxFaults)
              => /\ Len(journal') = Len(journal)
                 /\ \A i \in DOMAIN journal :
                      journal[i].id # s => journal'[i] = journal[i]]_vars

\* C28: no step of a retention sweep changes the journal, whether its deletes
\* succeed or fail.
C28_SweepLeavesJournal == [][journal' = journal]_vars

\* a sweep is over that deleted one file and failed on another, next to a
\* journal with records
C28_Witness ==
    /\ sweep.pc = "done"
    /\ sweep.deleted > 0
    /\ sweep.failed > 0
    /\ journal # <<>>

\* C29: a file the sweep deleted was created more than the configured number
\* of days (90 when not configured) before the sweep.
C29_OnlyOldFilesDeleted ==
    sweep.pc # "none"
        => \A f \in DOMAIN sweep.files :
              ~sweep.present[f]
                  => /\ sweep.files[f].kind = "file"
                     /\ sweep.files[f].created > sweep.retention

\* with the default window a file one day older than the window is deleted
\* and a file exactly as old as the window is still there at the end
C29_Witness ==
    /\ sweep.pc = "done"
    /\ sweep.retention = RetentionDays
    /\ \E f, g \in DOMAIN sweep.files :
          /\ sweep.files[f].created = RetentionDays + 1 /\ ~sweep.present[f]
          /\ sweep.files[g].created = RetentionDays /\ sweep.present[g]

\* C30: at the end of a sweep that listed files, every listed file has had
\* one delete attempt and no other child has had any, and deleted + failed is
\* the number of listed files.
C30_EveryListedFileAttempted ==
    (sweep.pc = "done" /\ sweep.listed # <<>>)
        => /\ \A f \in DOMAIN sweep.files :
                sweep.attempts[f] =
                    IF \E k \in DOMAIN sweep.listed : sweep.listed[k] = f THEN 1 ELSE 0
           /\ \A f \in DOMAIN sweep.files :
                (sweep.files[f].kind = "file" /\ sweep.files[f].created > sweep.retention)
                    => \E k \in DOMAIN sweep.listed : sweep.listed[k] = f
           /\ sweep.deleted + sweep.failed = Len(sweep.listed)

\* the first delete failed and the files after it were still deleted
C30_Witness ==
    /\ sweep.pc = "done"
    /\ Len(sweep.listed) = 3
    /\ sweep.present[sweep.listed[1]]
    /\ sweep.deleted = 2
    /\ sweep.failed = 1

\* C34: whenever a journal entry is marked synced, the sheet holds a row with
\* the id of that entry; stated for submissions whose ids differ.
C34_SyncedEntryHasRow ==
    DistinctIds
        => \A i \in DOMAIN journal :
              journal[i].synced => journal[i].id \in RemoteIds(remote)

\* C35: when the handler returns an acceptance for submission s and hands its
\* pipeline to the background tasks, the journal holds an entry with its id.
C35_AcceptedIsJournaled ==
    [][\A s \in Subs :
          (sub[s].pc = "new" /\ sub'[s].pc = "queued")
              => \E i \in DOMAIN journal' : journal'[i].id = sub'[s].id]_vars

\* C37: a row of the sheet shows attachment status Saved only if an item of
\* the submission has been uploaded.
C37_SavedOnlyAfterUpload ==
    \A i \in DOMAIN remote : remote[i].status = "Saved" => pipe.files # {}

\* calls of send_confirmation made by the pipeline so far
NotifyCount == Cardinality({i \in DOMAIN pipe.log : pipe.log[i] = "notify"})

\* C32: the notifier is called at most once per submission, and the step that
\* calls it, failed or not, ends the pipeline and leaves the journal as it was.
C32_NotifierBestEffort ==
    [][/\ NotifyCount' <= 1
       /\ NotifyCount' > NotifyCount => (pipe'.pc = "done" /\ journal' = journal)]_vars

\* a pipeline that saved an attachment is done and its mail was not sent
C32_Witness ==
    /\ pipe.pc = "done"
    /\ ~pipe.mailed
    /\ NotifyCount = 1
    /\ journal[1].status = "Saved"

\* run r ends the write of one record of records_to_sync in this step
WriteOutcome(r) ==
    /\ run[r].pc \in {"syncing", "writing"}
    /\ run'[r] # run[r]
    /\ ~(run[r].pc = "syncing" /\ run'[r].pc = "writing")

\* C38: whatever the outcome of the write of one missing entry, the run goes on
\* to the next missing entry, and the step sets the synced flag of the entry
\* written, when its write succeeded, and of no other entry.
C38_EachRecordOnItsOwn ==
    [][WriteOutcome(IntervalJob)
          => LET k == run[IntervalJob].k
                 todo == run[IntervalJob].todo
                 written == Len(remote') > Len(remote)
             IN  /\ k < Len(todo)
                      => (run'[IntervalJob].pc = "syncing" /\ run'[IntervalJob].k = k + 1)
                 /\ k = Len(todo) => run'[IntervalJob] = IdleRun
                 /\ Len(journal') = Len(journal)
                 /\ \A i \in DOMAIN journal :
                      journal'[i].synced =
                          IF i = todo[k] THEN written ELSE journal[i].synced]_vars

\* the write of the first missing entry failed and the run is writing the
\* second one
C38_Witness ==
    /\ run[IntervalJob].pc = "writing"
    /\ run[IntervalJob].k = 2
    /\ ~journal[run[IntervalJob].todo[1]].synced

\* C33: the pipeline of an accepted submission eventually reaches its terminal
\* state, whichever remote calls fail or never answer.
C33_PipelineTerminates == (pipe.pc = "row") ~> (pipe.pc = "done")

\* what each column of an inserted row holds
Layout(api) ==
    IF api THEN <<"Request_ID">> \o Fields \o <<"Has", "Status", "Error">>
    ELSE <<"Request_ID", "Timestamp">> \o Fields \o <<"Has", "Status", "Error">>

\* C36: the final status patch of the pipeline changes the attachment
\* indicator, status and error cells of the row and no other: the id and the
\* business fields keep the values written at insertion.
C36_StatusPatchKeepsFields ==
    cells.pc = "patched"
        => \A i \in DOMAIN cells.row :
              Layout(cells.api)[i] \notin {"Has", "Status", "Error"}
                  => cells.row[i] = cells.inserted[i]

\* the value the posted form gives field f; a missing phoneNumber is ''
Submitted(form, f) == IF f \in DOMAIN form THEN form[f] ELSE ""

\* C39: the row a reconciliation run writes for a journal entry carries the id
\* of the entry and, for each of the ten business fields, the value posted at
\* intake.
C39_RunRowCarriesForm ==
    (cells.pc = "inserted" /\ cells.who = "run")
        => \A i \in DOMAIN cells.row :
              /\ Layout(cells.api)[i] = "Request_ID" => cells.row[i] = cells.id
              /\ Layout(cells.api)[i] \in FieldSet
                    => cells.row[i] = Submitted(cells.form, Layout(cells.api)[i])

\* a run has written the row of a form posted with blanks around its values
\* and without a phone number
C39_Witness ==
    /\ cells.pc = "inserted"
    /\ cells.who = "run"
    /\ "phoneNumber" \notin DOMAIN cells.form
    /\ cells.form["email"] = " email"
    /\ Len(cells.row) = 15

\* C31: whatever collaborator raises inside a pipeline, a reconciliation run
\* or a retention sweep, the exception never leaves process_submission,
\* sync_json_to_sharepoint or cleanup_old_attachments.
C31_NothingEscapes == guard.st # "escaped"

\* a run has returned after the token provider raised where only the handler
\* around the whole body encloses the call
C31_Witness ==
    /\ guard.st = "returned"
    /\ guard.op = "sync_json_to_sharepoint"
    /\ <<2, 1, "token">> \in guard.caught

====
